---- MODULE Spec2Model ----
(***************************************************************************)
(* Model of validation_utils.py: six stateless functions                   *)
(*   clamp, is_valid_password, is_valid_hex_color, is_in_range,            *)
(*   validate_length, contains_only_allowed_chars.                         *)
(*                                                                         *)
(* A behaviour is one call: Init draws the function and its arguments, the *)
(* function's action evaluates the body and stores what the call produced  *)
(* (a returned value or a raised exception) in ret.                        *)
(*                                                                         *)
(* A str is a sequence of Unicode code points (10 is "\n", 35 is "#",      *)
(* 48..57 are "0".."9", 65..90 are "A".."Z", 97..122 are "a".."z").        *)
(* Numbers are Python ints (unbounded, so no wrap-around).                 *)
(***************************************************************************)
EXTENDS Integers, Sequences, FiniteSets, TLC

VARIABLES fn, args, ret, pc

vars == <<fn, args, ret, pc>>

(***************************************************************************)
(* Bounds of the input sets.                                               *)
(***************************************************************************)
MaxNum == 3
MaxShortColorLen == 4
MaxHexRun == 6
MaxCoreLen == 2
MaxPad == 8
MaxTextLen == 5
MaxLenArg == 6
MaxCharsLen == 3

SeqsUpTo(S, n) == UNION {[1..k -> S] : k \in 0..n}

Repeat(c, n) == [i \in 1..n |-> c]

(***************************************************************************)
(* Python values the calls handle.                                         *)
(***************************************************************************)
\* the None object, and an int, where a parameter accepts either
None == [isNone |-> TRUE, val |-> 0]

PyInt(n) == [isNone |-> FALSE, val |-> n]

\* a keyword parameter left out of the call, or passed
Omitted == <<>>

Given(x) == <<x>>

\* binding of a parameter that has a default value
Bind(arg, default) == IF arg = Omitted THEN default ELSE arg[1]

\* what a call produces
NoRet == [kind |-> "pending", b |-> FALSE, n |-> 0, exc |-> ""]

RetBool(b) == [kind |-> "bool", b |-> b, n |-> 0, exc |-> ""]

RetNum(n) == [kind |-> "num", b |-> FALSE, n |-> n, exc |-> ""]

Raise(e) == [kind |-> "raise", b |-> FALSE, n |-> 0, exc |-> e]

\* builtin max(a, b) and min(a, b): the first argument unless the second beats it
py_max(a, b) == IF b > a THEN b ELSE a

py_min(a, b) == IF b < a THEN b ELSE a

\* re: a match object (truthy) or None (falsy); positions are 0-based offsets
NoMatch == [matched |-> FALSE, start |-> 0, end |-> 0]

Match(s, e) == [matched |-> TRUE, start |-> s, end |-> e]

py_bool(m) == m.matched

\* re.search(r'[class]', string): the leftmost character of the class
re_search(class, string) ==
    LET hits == {i \in 1..Len(string) : string[i] \in class}
    IN IF hits = {} THEN NoMatch
       ELSE LET i == CHOOSE j \in hits : \A k \in hits : j <= k
            IN Match(i - 1, i)

\* [A-Z]
UpperAZ == 65..90

\* \d on a str pattern: Unicode category Nd (ASCII, Arabic-Indic, fullwidth shown)
UnicodeDecimalDigits == (48..57) \cup (1632..1641) \cup (65296..65305)

\* [0-9a-fA-F]
HexClass == (48..57) \cup (97..102) \cup (65..70)

\* '$' without re.MULTILINE at offset pos: the end of the string, or just
\* before a newline that is the string's last character
DollarMatches(string, pos) ==
    \/ pos = Len(string)
    \/ pos = Len(string) - 1 /\ string[Len(string)] = 10

\* '^#' then k groups of three hex digits then '$', tried from offset 0
HexColorGroups(string, k) ==
    /\ Len(string) >= 1 + 3 * k
    /\ string[1] = 35
    /\ \A i \in 2..(1 + 3 * k) : string[i] \in HexClass
    /\ DollarMatches(string, 1 + 3 * k)

\* re.match(r'^#(?:[0-9a-fA-F]{3}){1,2}$', string): {1,2} is greedy, two
\* groups are tried before one
re_match_hex_color(string) ==
    IF HexColorGroups(string, 2) THEN Match(0, 7)
    ELSE IF HexColorGroups(string, 1) THEN Match(0, 4)
    ELSE NoMatch

(***************************************************************************)
(* The six functions.  Each yields what the call produces.                 *)
(***************************************************************************)
\* max and min exchanged
clamp_swapped(value, min_value, max_value) ==
    RetNum(py_min(min_value, py_max(value, max_value)))

\* the bounds are not applied when they are inverted
clamp_guarded(value, min_value, max_value) ==
    IF min_value > max_value THEN RetNum(value)
    ELSE RetNum(py_max(min_value, py_min(value, max_value)))

\* only the upper bound is applied
clamp_upper_only(value, min_value, max_value) ==
    RetNum(py_min(value, max_value))

clamp(value, min_value, max_value) ==
    RetNum(py_max(min_value, py_min(value, max_value)))

\* the exclusive branch keeps the upper boundary
is_in_range_half_open(value, min_val, max_val, inclusive) ==
    IF inclusive
    THEN RetBool(min_val <= value /\ value <= max_val)
    ELSE RetBool(min_val < value /\ value <= max_val)

is_in_range(value, min_val, max_val, inclusive) ==
    IF inclusive
    THEN RetBool(min_val <= value /\ value <= max_val)
    ELSE RetBool(min_val < value /\ value < max_val)

is_in_range_inclusive_default == TRUE

\* max_length is compared without the test for None
validate_length_no_none_test(text, min_length, max_length) ==
    IF Len(text) < min_length THEN RetBool(FALSE)
    ELSE IF max_length.isNone THEN Raise("TypeError")
    ELSE IF Len(text) > max_length.val THEN RetBool(FALSE)
    ELSE RetBool(TRUE)

\* the upper bound is exclusive
validate_length_exclusive_max(text, min_length, max_length) ==
    IF Len(text) < min_length THEN RetBool(FALSE)
    ELSE IF ~max_length.isNone /\ Len(text) >= max_length.val THEN RetBool(FALSE)
    ELSE RetBool(TRUE)

validate_length(text, min_length, max_length) ==
    IF Len(text) < min_length THEN RetBool(FALSE)
    ELSE IF ~max_length.isNone /\ Len(text) > max_length.val THEN RetBool(FALSE)
    ELSE RetBool(TRUE)

validate_length_min_length_default == 0

validate_length_max_length_default == None

\* the uppercase test is made whatever require_uppercase says
is_valid_password_always_upper(password, min_length, require_number, require_uppercase) ==
    IF Len(password) < min_length THEN RetBool(FALSE)
    ELSE IF ~py_bool(re_search(UpperAZ, password)) THEN RetBool(FALSE)
    ELSE IF require_number /\ ~py_bool(re_search(UnicodeDecimalDigits, password))
    THEN RetBool(FALSE)
    ELSE RetBool(TRUE)

\* the length test is strict
is_valid_password_strict_length(password, min_length, require_number, require_uppercase) ==
    IF Len(password) <= min_length THEN RetBool(FALSE)
    ELSE IF require_uppercase /\ ~py_bool(re_search(UpperAZ, password))
    THEN RetBool(FALSE)
    ELSE IF require_number /\ ~py_bool(re_search(UnicodeDecimalDigits, password))
    THEN RetBool(FALSE)
    ELSE RetBool(TRUE)

is_valid_password(password, min_length, require_number, require_uppercase) ==
    IF Len(password) < min_length THEN RetBool(FALSE)
    ELSE IF require_uppercase /\ ~py_bool(re_search(UpperAZ, password))
    THEN RetBool(FALSE)
    ELSE IF require_number /\ ~py_bool(re_search(UnicodeDecimalDigits, password))
    THEN RetBool(FALSE)
    ELSE RetBool(TRUE)

is_valid_password_min_length_default == 8

is_valid_password_require_number_default == TRUE

is_valid_password_require_uppercase_default == TRUE

is_valid_hex_color(color) == RetBool(py_bool(re_match_hex_color(color)))

\* all(...) over a generator: stops at the first falsy element
RECURSIVE py_all(_, _, _)
py_all(text, allowed_chars, i) ==
    IF i > Len(text) THEN TRUE
    ELSE IF ~(\E j \in 1..Len(allowed_chars) : allowed_chars[j] = text[i]) THEN FALSE
    ELSE py_all(text, allowed_chars, i + 1)

\* any(...) in place of all(...)
contains_only_allowed_chars_any(text, allowed_chars) ==
    RetBool(\E i \in 1..Len(text) :
                \E j \in 1..Len(allowed_chars) : allowed_chars[j] = text[i])

contains_only_allowed_chars(text, allowed_chars) ==
    RetBool(py_all(text, allowed_chars, 1))

(***************************************************************************)
(* Input sets.                                                             *)
(***************************************************************************)
Nums == (0 - MaxNum)..MaxNum

OptBool == {Omitted, Given(TRUE), Given(FALSE)}

\* "#", "9", "f", "F", "g", "\n"
ColorAlphabet == {35, 57, 102, 70, 103, 10}

\* the characters at and next to the ends of 0-9, A-F, a-f
EdgeChars == {47, 48, 57, 58, 64, 65, 70, 71, 96, 97, 102, 103}

ShortColors == SeqsUpTo(ColorAlphabet, MaxShortColorLen)

EdgeColors == {<<35, a, b, c>> : a \in {48, 102}, b \in EdgeChars, c \in EdgeChars}

\* with or without "#", a run of "f" and "g", then up to two of "f" and "\n"
LongColors ==
    {head \o body \o tail :
        head \in {<<>>, <<35>>},
        body \in UNION {[1..k -> {102, 103}] : k \in 4..MaxHexRun},
        tail \in SeqsUpTo({102, 10}, 2)}

Colors == ShortColors \cup EdgeColors \cup LongColors

\* "A", "1", "!", Arabic-Indic digit three, "E" with acute accent
CoreAlphabet == {65, 49, 33, 1635, 201}

\* "Abcdefg1", "abcdefg1", "Abcdefgh", "Ab1"
PasswordExamples ==
    { <<65, 98, 99, 100, 101, 102, 103, 49>>,
      <<97, 98, 99, 100, 101, 102, 103, 49>>,
      <<65, 98, 99, 100, 101, 102, 103, 104>>,
      <<65, 98, 49>> }

\* a few characters of the classes, among lowercase "b"
Passwords ==
    {Repeat(98, k) \o core \o Repeat(98, n - k) :
        core \in SeqsUpTo(CoreAlphabet, MaxCoreLen), n \in 0..MaxPad, k \in {0, 1}}
    \cup PasswordExamples

PasswordMinLengths == {0 - 1, 0, 2, 8, 9}

\* "hello"
Texts == SeqsUpTo({97, 122}, MaxTextLen) \cup {<<104, 101, 108, 108, 111>>}

LenArgs == ((0 - 1)..MaxLenArg) \cup {10}

\* "a", "b", "z"
CharAlphabet == {97, 98, 122}

CharTexts == SeqsUpTo(CharAlphabet, MaxCharsLen)

\* ("abc", "abcdef"), ("abcz", "abcdef"), ("", "anything")
CharExamples ==
    { [text |-> <<97, 98, 99>>, allowed_chars |-> <<97, 98, 99, 100, 101, 102>>],
      [text |-> <<97, 98, 99, 122>>, allowed_chars |-> <<97, 98, 99, 100, 101, 102>>],
      [text |-> <<>>, allowed_chars |-> <<97, 110, 121, 116, 104, 105, 110, 103>>] }

ClampArgs == [value : Nums, min_value : Nums, max_value : Nums]

InRangeArgs == [value : Nums, min_val : Nums, max_val : Nums, inclusive : OptBool]

ColorArgs == [color : Colors]

PasswordArgs ==
    [password : Passwords,
     min_length : {Omitted} \cup {Given(m) : m \in PasswordMinLengths},
     require_number : OptBool,
     require_uppercase : OptBool]

LengthArgs ==
    [text : Texts,
     min_length : {Omitted} \cup {Given(m) : m \in LenArgs},
     max_length : {Omitted, Given(None)} \cup {Given(PyInt(m)) : m \in LenArgs}]

CharsArgs == [text : CharTexts, allowed_chars : CharTexts] \cup CharExamples

(***************************************************************************)
(* One call.                                                               *)
(***************************************************************************)
InitClamp == fn = "clamp" /\ args \in ClampArgs /\ ret = NoRet /\ pc = "call"

InitInRange == fn = "is_in_range" /\ args \in InRangeArgs /\ ret = NoRet /\ pc = "call"

InitColor == fn = "is_valid_hex_color" /\ args \in ColorArgs /\ ret = NoRet /\ pc = "call"

InitPassword ==
    fn = "is_valid_password" /\ args \in PasswordArgs /\ ret = NoRet /\ pc = "call"

InitLength == fn = "validate_length" /\ args \in LengthArgs /\ ret = NoRet /\ pc = "call"

InitChars ==
    fn = "contains_only_allowed_chars" /\ args \in CharsArgs /\ ret = NoRet /\ pc = "call"

Init ==
    \/ InitClamp
    \/ InitInRange
    \/ InitColor
    \/ InitPassword
    \/ InitLength
    \/ InitChars

Call_clamp ==
    /\ pc = "call" /\ fn = "clamp"
    /\ ret' = clamp(args.value, args.min_value, args.max_value)
    /\ pc' = "return"
    /\ UNCHANGED <<fn, args>>

Call_is_in_range ==
    /\ pc = "call" /\ fn = "is_in_range"
    /\ ret' = is_in_range(args.value, args.min_val, args.max_val,
                          Bind(args.inclusive, is_in_range_inclusive_default))
    /\ pc' = "return"
    /\ UNCHANGED <<fn, args>>

Call_is_valid_hex_color ==
    /\ pc = "call" /\ fn = "is_valid_hex_color"
    /\ ret' = is_valid_hex_color(args.color)
    /\ pc' = "return"
    /\ UNCHANGED <<fn, args>>

Call_is_valid_password ==
    /\ pc = "call" /\ fn = "is_valid_password"
    /\ ret' = is_valid_password(
                  args.password,
                  Bind(args.min_length, is_valid_password_min_length_default),
                  Bind(args.require_number, is_valid_password_require_number_default),
                  Bind(args.require_uppercase, is_valid_password_require_uppercase_default))
    /\ pc' = "return"
    /\ UNCHANGED <<fn, args>>

Call_validate_length ==
    /\ pc = "call" /\ fn = "validate_length"
    /\ ret' = validate_length(
                  args.text,
                  Bind(args.min_length, validate_length_min_length_default),
                  Bind(args.max_length, validate_length_max_length_default))
    /\ pc' = "return"
    /\ UNCHANGED <<fn, args>>

Call_contains_only_allowed_chars ==
    /\ pc = "call" /\ fn = "contains_only_allowed_chars"
    /\ ret' = contains_only_allowed_chars(args.text, args.allowed_chars)
    /\ pc' = "return"
    /\ UNCHANGED <<fn, args>>

Next ==
    \/ Call_clamp
    \/ Call_is_in_range
    \/ Call_is_valid_hex_color
    \/ Call_is_valid_password
    \/ Call_validate_length
    \/ Call_contains_only_allowed_chars

Spec == Init /\ [][Next]_vars

SpecClamp == InitClamp /\ [][Call_clamp]_vars

SpecInRange == InitInRange /\ [][Call_is_in_range]_vars

SpecColor == InitColor /\ [][Call_is_valid_hex_color]_vars

SpecPassword == InitPassword /\ [][Call_is_valid_password]_vars

SpecLength == InitLength /\ [][Call_validate_length]_vars

SpecChars == InitChars /\ [][Call_contains_only_allowed_chars]_vars

Returned(f) == pc = "return" /\ fn = f

(***************************************************************************)
(* Properties.                                                             *)
(***************************************************************************)

\* C1: with min_value <= max_value, clamp returns r with min_value <= r <= max_value;
\* r = min_value when value < min_value, r = max_value when value > max_value, and
\* r = value when value lies within the bounds (so clamp(lo, lo, hi) = lo and
\* clamp(hi, lo, hi) = hi).
C1_ClampWithinBounds ==
    (Returned("clamp") /\ args.min_value <= args.max_value) =>
        /\ ret.kind = "num"
        /\ args.min_value <= ret.n /\ ret.n <= args.max_value
        /\ (args.value < args.min_value => ret.n = args.min_value)
        /\ (args.value > args.max_value => ret.n = args.max_value)
        /\ (args.min_value <= args.value /\ args.value <= args.max_value
                => ret.n = args.value)
        /\ (args.value = args.min_value => ret.n = args.min_value)
        /\ (args.value = args.max_value => ret.n = args.max_value)

C1_Witness ==
    /\ Returned("clamp")
    /\ args.min_value < args.max_value
    /\ args.value > args.max_value
    /\ ret.n = args.max_value

\* C2: is_in_range is true iff min_val <= value <= max_val when inclusive is true or
\* left out (its default is true), and iff min_val < value < max_val when inclusive is
\* false, for any order of the bounds; when exclusive, value = min_val and
\* value = max_val give false.
C2_InRangeIffBetween ==
    Returned("is_in_range") =>
        /\ ret.kind = "bool"
        /\ (args.inclusive \in {Omitted, Given(TRUE)} =>
                (ret.b <=> (args.min_val <= args.value /\ args.value <= args.max_val)))
        /\ (args.inclusive = Given(FALSE) =>
                /\ ret.b <=> (args.min_val < args.value /\ args.value < args.max_val)
                /\ (args.value = args.min_val \/ args.value = args.max_val) => ~ret.b)

C2_Witness ==
    /\ Returned("is_in_range")
    /\ args.inclusive = Given(FALSE)
    /\ args.min_val < args.max_val
    /\ args.value = args.max_val
    /\ ~ret.b

\* the whole string is "#" followed by exactly 3 or exactly 6 hex digits
ExactHexColor(c) ==
    /\ Len(c) \in {4, 7}
    /\ c[1] = 35
    /\ \A i \in 2..Len(c) :
          \/ 48 <= c[i] /\ c[i] <= 57
          \/ 97 <= c[i] /\ c[i] <= 102
          \/ 65 <= c[i] /\ c[i] <= 70

\* C3: is_valid_hex_color(c) is true iff the whole of c is "#" followed by exactly 3
\* or exactly 6 characters of 0-9, a-f, A-F, with nothing before and nothing after.
C3_HexColorWholeString ==
    Returned("is_valid_hex_color") =>
        /\ ret.kind = "bool"
        /\ ret.b <=> ExactHexColor(args.color)

C5_ValidateLengthBounds ==
    Returned("validate_length") =>
        LET n == Len(args.text)
            lo == IF args.min_length = Omitted THEN 0 ELSE args.min_length[1]
            unlimited == args.max_length = Omitted \/ args.max_length[1].isNone
        IN /\ ret.kind = "bool"
           /\ ret.b <=> (n >= lo /\ (unlimited \/ n <= args.max_length[1].val))

C5_Witness ==
    /\ Returned("validate_length")
    /\ args.min_length # Omitted
    /\ args.max_length # Omitted
    /\ ~args.max_length[1].isNone
    /\ Len(args.text) = args.max_length[1].val
    /\ Len(args.text) = args.min_length[1]
    /\ Len(args.text) > 0
    /\ ret.b

\* C6: contains_only_allowed_chars is true iff every character of text occurs in
\* allowed_chars; the empty text gives true for any allowed_chars, the empty one
\* included, and a non-empty text with empty allowed_chars gives false.
C6_OnlyAllowedChars ==
    Returned("contains_only_allowed_chars") =>
        LET allowed == {args.allowed_chars[j] : j \in 1..Len(args.allowed_chars)}
        IN /\ ret.kind = "bool"
           /\ ret.b <=> (\A i \in 1..Len(args.text) : args.text[i] \in allowed)
           /\ (args.text = <<>> => ret.b)
           /\ (args.text # <<>> /\ args.allowed_chars = <<>> => ~ret.b)

C6_Witness ==
    /\ Returned("contains_only_allowed_chars")
    /\ args.text = <<>>
    /\ args.allowed_chars = <<>>
    /\ ret.b

\* C7: every call ends, and ends by returning: none raises; the five validators
\* return a boolean and clamp returns a value equal to one of its three arguments.
C7_TotalOnWellTyped ==
    /\ (pc = "call" => ENABLED Next)
    /\ (pc = "return" =>
            /\ ret.kind # "raise"
            /\ (fn = "clamp" =>
                    /\ ret.kind = "num"
                    /\ ret.n \in {args.value, args.min_value, args.max_value})
            /\ (fn # "clamp" => ret.kind = "bool"))

\* the empty text, no lower limit that binds, max_length = None passed explicitly
C7_Witness ==
    /\ Returned("validate_length")
    /\ args.text = <<>>
    /\ args.min_length = Given(0 - 1)
    /\ args.max_length = Given(None)
    /\ ret.kind = "bool"

\* C8: with min_value > max_value, clamp returns min_value for every value; the result
\* is inside [max_value, min_value] only at its upper end, and is_in_range of the
\* result with the same bounds is false.
C8_InvertedBoundsGiveMin ==
    (Returned("clamp") /\ args.min_value > args.max_value) =>
        /\ ret.kind = "num"
        /\ ret.n = args.min_value
        /\ ~(args.max_value <= ret.n /\ ret.n < args.min_value)
        /\ is_in_range(ret.n, args.min_value, args.max_value,
                       is_in_range_inclusive_default) = RetBool(FALSE)

C8_Witness ==
    /\ Returned("clamp")
    /\ args.min_value > args.max_value
    /\ args.value < args.max_value
    /\ ret.n = args.min_value

\* C9: clamp applied to its own result, with the same bounds in any order, returns
\* that result; and with min_value <= max_value, clamp returns value itself iff value
\* is in the inclusive range, and its result is always in the inclusive range.
C9_ClampIdempotentAndInRange ==
    Returned("clamp") =>
        /\ clamp(ret.n, args.min_value, args.max_value) = ret
        /\ (args.min_value <= args.max_value =>
                /\ (ret.n = args.value) <=>
                       is_in_range(args.value, args.min_value, args.max_value, TRUE).b
                /\ is_in_range(ret.n, args.min_value, args.max_value, TRUE).b)

C9_Witness ==
    /\ Returned("clamp")
    /\ args.min_value < args.max_value
    /\ args.value < args.min_value
    /\ ret.n = args.min_value
    /\ ret.n # args.value

\* C10: dropping require_number or require_uppercase never turns an accepted password
\* into a rejected one; with both dropped the result is that of
\* validate_length(password, min_length, None); and a password shorter than
\* min_length is rejected whatever the flags.
C10_PasswordMonotoneAndLength ==
    Returned("is_valid_password") =>
        LET p == args.password
            m == Bind(args.min_length, is_valid_password_min_length_default)
            rn == Bind(args.require_number, is_valid_password_require_number_default)
            ru == Bind(args.require_uppercase, is_valid_password_require_uppercase_default)
        IN /\ (ret.b => /\ is_valid_password(p, m, FALSE, ru).b
                        /\ is_valid_password(p, m, rn, FALSE).b
                        /\ is_valid_password(p, m, FALSE, FALSE).b)
           /\ is_valid_password(p, m, FALSE, FALSE) = validate_length(p, m, None)
           /\ ((rn = FALSE /\ ru = FALSE) => ret = validate_length(p, m, None))
           /\ (Len(p) < m => \A x, y \in BOOLEAN : ~is_valid_password(p, m, x, y).b)
           /\ (Len(p) < m => ~ret.b)

\* accepted with both flags false, though it has neither an uppercase letter nor a digit
C10_Witness ==
    /\ Returned("is_valid_password")
    /\ args.require_number = Given(FALSE)
    /\ args.require_uppercase = Given(FALSE)
    /\ Len(args.password) > 0
    /\ ~py_bool(re_search(UpperAZ, args.password))
    /\ ~py_bool(re_search(UnicodeDecimalDigits, args.password))
    /\ ret.b

====
